---- MODULE Spec2Model ----
(***************************************************************************)
(* Model of two ockam_command workflows:                                   *)
(*   node/delete.rs      run_impl : resolve mode, confirm, delete, report  *)
(*   tcp/inlet/create.rs rpc      : retry engine joined with the progress  *)
(*                                  reporter                               *)
(* One invocation of one of the two commands is modelled per behaviour.    *)
(* Terminal writes (write_line) are taken to succeed.                      *)
(***************************************************************************)
EXTENDS Integers, Sequences, FiniteSets, TLC

\* ------------------------------------------------------------------ bounds
\* Node names are 1..MaxNodes; NoName is Option::None for a node name.
MaxNodes == 3
\* Most create_inlet requests one invocation may send in the model.
MaxProbes == 3
\* retry_wait ranges over 0..MaxRetryWait (milliseconds, abstracted).
MaxRetryWait == 2

NoName == 0
\* Option::None for cmd.timeout.
NoTimeout == 0
\* The values of --timeout tried, in the unit of retry_wait.
Timeouts == {NoTimeout, 1, 2}
\* How long a create_inlet request may take to be answered, same unit.
ProbeTimes == {0, 1}
Names == 1..MaxNodes

\* ------------------------------------------------------------------ state
VARIABLES
    \* ---- node delete
    dpc,          \* position of run_impl
    cmd,          \* DeleteCommand {node_name, all, force, yes}
    canAsk,       \* opts.terminal.can_ask_for_user_input()
    nodes,        \* persisted node records (the state store)
    defaultNode,  \* the configured default node name
    defaultAtResolve, \* history: the default node when the mode was resolved
    all_nodes,    \* local all_nodes (line 52)
    delete_mode,  \* local delete_mode (line 54)
    confirmation, \* how the confirmation of this invocation resolved
    idx,          \* position of the iterator over selected_node_names
    output,       \* the per-item report being collected (line 115)
    prompts,      \* prompts shown to the user, in order
    calls,        \* state-store deletion calls issued, in order
    stdout,       \* lines written to the terminal
    result,       \* what run_impl returned
    \* ---- tcp inlet create
    ipc,          \* position of the create_inlet future (the retry engine)
    inlet,        \* CreateCommand fields and environment of this invocation
    is_finished,  \* the Mutex<bool> completion flag (line 112)
    probes,       \* create_inlet requests sent so far
    inflight,     \* create_inlet requests awaiting their reply
    replies,      \* replies received, in order
    sleeps,       \* retry-wait sleeps started so far
    flagWrites,   \* writes to is_finished so far
    elapsed,      \* time spent so far in probes and sleeps
    reportErr,    \* whether progress_output has met a reporting error
    engine,       \* outcome of the create_inlet future
    rpc_pc,       \* position of rpc itself
    reporter,     \* position of the progress_output future
    rpcResult     \* what rpc returned

dvars == <<dpc, cmd, canAsk, nodes, defaultNode, defaultAtResolve, all_nodes, delete_mode,
           confirmation, idx, output, prompts, calls, stdout, result>>
ivars == <<ipc, inlet, is_finished, probes, inflight, replies, sleeps,
           flagWrites, elapsed, reportErr, engine, rpc_pc, reporter, rpcResult>>
vars == <<dvars, ivars>>

\* ------------------------------------------------------------------ helpers
Min(S) == CHOOSE x \in S : \A y \in S : x <= y

RECURSIVE SetToSeq(_)
\* The names of a set as a vector, in listing order.
SetToSeq(S) == IF S = {} THEN <<>>
               ELSE LET m == Min(S) IN <<m>> \o SetToSeq(S \ {m})

Range(s) == {s[i] : i \in 1..Len(s)}

NoMode == [tag |-> "none", name |-> NoName, picks |-> <<>>]

\* ---------------------------------------------------- terminal (collaborator)
\* Terminal::confirmed_with_flag_or_prompt(flag, msg): the outcomes it can have.
\* prompted: whether a prompt was shown; res: Ok(true) | Ok(false) | Err.
ConfirmedWithFlagOrPrompt(flag, interactive) ==
    IF flag THEN {[prompted |-> FALSE, res |-> "true"]}
    ELSE IF ~interactive
         THEN {[prompted |-> FALSE, res |-> "false"],
               [prompted |-> FALSE, res |-> "err"]}
         ELSE {[prompted |-> TRUE, res |-> r] : r \in {"true", "false", "err"}}

\* Terminal::confirm_interactively(msg): the outcomes it can have.
ConfirmInteractively(interactive) ==
    IF ~interactive
    THEN {[prompted |-> FALSE, res |-> "err"]}
    ELSE {[prompted |-> TRUE, res |-> r] : r \in {"true", "false", "err"}}

\* Terminal::select_multiple(msg, items): Ok(picked items, in item order) | Err.
SelectMultiple(items) ==
    {[ok |-> TRUE, picks |-> SetToSeq(P)] : P \in SUBSET Range(items)}
    \cup {[ok |-> FALSE, picks |-> <<>>]}

\* ------------------------------------------------- state store (collaborator)
\* delete_node / delete_sigkill on one name: the outcomes it can have, as
\* [ok, nodes after].  A name with no record is a not-found error.
DeleteOne(store, name) ==
    {[ok |-> FALSE, nodes |-> store]}
    \cup (IF name \in store
          THEN {[ok |-> TRUE, nodes |-> store \ {name}]}
          ELSE {})

\* delete_all_nodes: success removes every record; a failure is one aggregate
\* error that may leave any non-empty part of the records behind.
DeleteAllNodes(store) ==
    {[ok |-> TRUE, nodes |-> {}]}
    \cup {[ok |-> FALSE, nodes |-> S] : S \in (SUBSET store) \ {{}}}

\* ------------------------------------------------------- node delete: run_impl
\* ModeTag without the test that some node is known.
ModeTagNoEmptyTest(all, node_name, known, interactive) ==
    IF all THEN "All"
    ELSE IF node_name # NoName THEN "Single"
    ELSE IF interactive THEN "Selected"
    ELSE "Default"

\* lines 54-69: the if / else-if chain choosing the DeleteMode variant.
ModeTag(all, node_name, known, interactive) ==
    IF all THEN "All"
    ELSE IF node_name # NoName THEN "Single"
    ELSE IF known # <<>> /\ interactive THEN "Selected"
    ELSE "Default"

\* The flag each confirmed_with_flag_or_prompt call is given: cmd.yes.
ConfirmFlag(c) == c.yes

\* IfConfirmed with the condition negated.
IfNotConfirmed(res) == res # "true"

\* `if <confirmation>? { ... }`: the body runs on Ok(true) only.
IfConfirmed(res) == res = "true"

\* UnwrapOrFalse as .unwrap_or(true).
UnwrapOrTrue(res) == res # "false"

\* `.unwrap_or(false)` on confirm_interactively's result (line 113).
UnwrapOrFalse(res) == res = "true"

\* SelectionIsEmpty with the early return left out.
SelectionNeverEmpty(picks) == FALSE

\* `if selected_node_names.is_empty()` (line 99).
SelectionIsEmpty(picks) == picks = <<>>

\* IterContinues as an iterator that stops at the first failed deletion.
IterStopsOnFailure(ok) == ok

\* The iterator of lines 115-129 goes on to the next name whatever the
\* result of the deletion before it.
IterContinues(ok) == TRUE

\* ForceArg with SIGKILL whatever the flag.
ForceAlways(c) == TRUE

\* The force argument of delete_all_nodes, delete_node and delete_sigkill:
\* cmd.force (lines 77, 89, 117, 140).
ForceArg(c) == c.force

\* ItemErrorAborts with the result of delete_sigkill propagated by `?`.
ItemErrorPropagated(ok) == ~ok

\* lines 117-127: a failed delete_sigkill is formatted into the report with
\* is_ok() / unwrap_err(); it is never returned from run_impl.
ItemErrorAborts(ok) == FALSE

\* DefaultNameAtUse taking the first node listed at line 52 instead.
DefaultNameFromListing(known, current) ==
    IF known # <<>> THEN known[1] ELSE current

\* line 139: get_default_node_name(&opts.state), evaluated inside the
\* confirmed branch, reads the default configured at that moment.
DefaultNameAtUse(known, current) == current

InvokeDelete ==
    /\ dpc = "idle" /\ rpc_pc = "idle"
    /\ \E nm \in Names \cup {NoName}, a \in BOOLEAN, f \in BOOLEAN, y \in BOOLEAN :
           cmd' = [node_name |-> nm, all |-> a, force |-> f, yes |-> y]
    /\ canAsk' \in BOOLEAN
    /\ nodes' \in SUBSET Names
    /\ defaultNode' \in Names
    /\ dpc' = "list"
    /\ UNCHANGED <<defaultAtResolve, all_nodes, delete_mode, confirmation, idx,
                   output, prompts, calls, stdout, result>>
    /\ UNCHANGED ivars

\* line 52: let all_nodes = opts.state.nodes.list_items_names()?;
ListItemsNames ==
    /\ dpc = "list"
    /\ \/ /\ all_nodes' = SetToSeq(nodes)
          /\ dpc' = "resolve"
          /\ UNCHANGED result
       \/ /\ result' = "Err"
          /\ dpc' = "done"
          /\ UNCHANGED all_nodes
    /\ UNCHANGED <<cmd, canAsk, nodes, defaultNode, defaultAtResolve, delete_mode, confirmation,
                   idx, output, prompts, calls, stdout>>
    /\ UNCHANGED ivars

\* lines 54-69
ResolveMode ==
    /\ dpc = "resolve"
    /\ defaultAtResolve' = defaultNode
    /\ LET tag == ModeTag(cmd.all, cmd.node_name, all_nodes, canAsk) IN
       IF tag = "Selected"
       THEN /\ prompts' = Append(prompts, "select")
            /\ \E s \in SelectMultiple(all_nodes) :
                 IF s.ok
                 THEN /\ delete_mode' = [tag |-> tag, name |-> NoName, picks |-> s.picks]
                      /\ dpc' = "match"
                      /\ UNCHANGED result
                 ELSE \* .unwrap() on Err
                      /\ result' = "Panic"
                      /\ dpc' = "done"
                      /\ UNCHANGED delete_mode
       ELSE /\ delete_mode' = [tag |-> tag,
                               name |-> IF tag = "Single" THEN cmd.node_name ELSE NoName,
                               picks |-> <<>>]
            /\ dpc' = "match"
            /\ UNCHANGED <<prompts, result>>
    /\ UNCHANGED <<cmd, canAsk, nodes, defaultNode, all_nodes, confirmation,
                   idx, output, calls, stdout>>
    /\ UNCHANGED ivars

\* lines 73-76, 85-88, 135-138: confirmed_with_flag_or_prompt(cmd.yes, ...)?
ConfirmGated ==
    /\ dpc = "match"
    /\ delete_mode.tag \in {"All", "Single", "Default"}
    /\ \E o \in ConfirmedWithFlagOrPrompt(ConfirmFlag(cmd), canAsk) :
         /\ prompts' = IF o.prompted
                       THEN Append(prompts, "confirm_" \o delete_mode.tag)
                       ELSE prompts
         /\ confirmation' = o.res
         /\ IF o.res = "err"
            THEN /\ result' = "Err" /\ dpc' = "done"
            ELSE /\ UNCHANGED result
                 /\ dpc' = IF IfConfirmed(o.res) THEN "delete" ELSE "end"
    /\ UNCHANGED <<cmd, canAsk, nodes, defaultNode, defaultAtResolve, all_nodes, delete_mode,
                   idx, output, calls, stdout>>
    /\ UNCHANGED ivars

\* lines 99-105: nothing selected
SelectedNothing ==
    /\ dpc = "match"
    /\ delete_mode.tag = "Selected"
    /\ SelectionIsEmpty(delete_mode.picks)
    /\ stdout' = Append(stdout, [kind |-> "nothing_selected", name |-> NoName, entries |-> <<>>])
    /\ result' = "Ok"
    /\ dpc' = "done"
    /\ UNCHANGED <<cmd, canAsk, nodes, defaultNode, defaultAtResolve, all_nodes, delete_mode,
                   confirmation, idx, output, prompts, calls>>
    /\ UNCHANGED ivars

\* lines 107-114: confirm_interactively(...).unwrap_or(false)
ConfirmSelected ==
    /\ dpc = "match"
    /\ delete_mode.tag = "Selected"
    /\ ~SelectionIsEmpty(delete_mode.picks)
    /\ \E o \in ConfirmInteractively(canAsk) :
         /\ prompts' = IF o.prompted THEN Append(prompts, "confirm_Selected") ELSE prompts
         /\ confirmation' = o.res
         /\ dpc' = IF UnwrapOrFalse(o.res) THEN "delete" ELSE "end"
    /\ idx' = 1
    /\ UNCHANGED <<cmd, canAsk, nodes, defaultNode, defaultAtResolve, all_nodes, delete_mode,
                   output, calls, stdout, result>>
    /\ UNCHANGED ivars

\* lines 77-81: delete_all_nodes(&opts, cmd.force)?; then the message
DeleteAll ==
    /\ dpc = "delete"
    /\ delete_mode.tag = "All"
    /\ \E d \in DeleteAllNodes(nodes) :
         /\ nodes' = d.nodes
         /\ calls' = Append(calls, [op |-> "delete_all_nodes", name |-> NoName,
                                    force |-> ForceArg(cmd), ok |-> d.ok])
         /\ IF d.ok
            THEN /\ stdout' = Append(stdout, [kind |-> "all_deleted", name |-> NoName, entries |-> <<>>])
                 /\ dpc' = "end"
                 /\ UNCHANGED result
            ELSE /\ result' = "Err" /\ dpc' = "done"
                 /\ UNCHANGED stdout
    /\ UNCHANGED <<cmd, canAsk, defaultNode, defaultAtResolve, all_nodes, delete_mode,
                   confirmation, idx, output, prompts>>
    /\ UNCHANGED ivars

\* delete_node(&opts, &node_name, cmd.force)?; then the message (lines 89-95
\* and 140-146)
DeleteNamed(node_name) ==
    \E d \in DeleteOne(nodes, node_name) :
         /\ nodes' = d.nodes
         /\ calls' = Append(calls, [op |-> "delete_node", name |-> node_name,
                                    force |-> ForceArg(cmd), ok |-> d.ok])
         /\ IF d.ok
            THEN /\ stdout' = Append(stdout, [kind |-> "node_deleted", name |-> node_name, entries |-> <<>>])
                 /\ dpc' = "end"
                 /\ UNCHANGED result
            ELSE /\ result' = "Err" /\ dpc' = "done"
                 /\ UNCHANGED stdout

\* lines 89-95
DeleteSingle ==
    /\ dpc = "delete"
    /\ delete_mode.tag = "Single"
    /\ DeleteNamed(delete_mode.name)
    /\ UNCHANGED <<cmd, canAsk, defaultNode, defaultAtResolve, all_nodes, delete_mode,
                   confirmation, idx, output, prompts>>
    /\ UNCHANGED ivars

\* lines 139-146: get_default_node_name(&opts.state), then delete_node
DeleteDefault ==
    /\ dpc = "delete"
    /\ delete_mode.tag = "Default"
    /\ DeleteNamed(DefaultNameAtUse(all_nodes, defaultNode))
    /\ UNCHANGED <<cmd, canAsk, defaultNode, defaultAtResolve, all_nodes, delete_mode,
                   confirmation, idx, output, prompts>>
    /\ UNCHANGED ivars

\* lines 115-129: one turn of the iterator: delete_sigkill(name, cmd.force),
\* then the entry of the report for that name
DeleteSelectedItem ==
    /\ dpc = "delete"
    /\ delete_mode.tag = "Selected"
    /\ idx <= Len(delete_mode.picks)
    /\ LET name == delete_mode.picks[idx] IN
       \E d \in DeleteOne(nodes, name) :
         /\ nodes' = d.nodes
         /\ calls' = Append(calls, [op |-> "delete_sigkill", name |-> name,
                                    force |-> ForceArg(cmd), ok |-> d.ok])
         /\ IF ItemErrorAborts(d.ok)
            THEN /\ result' = "Err" /\ dpc' = "done"
                 /\ UNCHANGED <<output, idx>>
            ELSE /\ output' = Append(output, [name |-> name, ok |-> d.ok])
                 /\ idx' = IF IterContinues(d.ok) THEN idx + 1
                           ELSE Len(delete_mode.picks) + 1
                 /\ UNCHANGED <<dpc, result>>
    /\ UNCHANGED <<cmd, canAsk, defaultNode, defaultAtResolve, all_nodes,
                   delete_mode, confirmation, prompts, stdout>>
    /\ UNCHANGED ivars

\* line 131: opts.terminal.stdout().plain(output).write_line()?
WriteSelectedOutput ==
    /\ dpc = "delete"
    /\ delete_mode.tag = "Selected"
    /\ idx > Len(delete_mode.picks)
    /\ stdout' = Append(stdout, [kind |-> "report", name |-> NoName, entries |-> output])
    /\ dpc' = "end"
    /\ UNCHANGED <<cmd, canAsk, nodes, defaultNode, defaultAtResolve, all_nodes, delete_mode,
                   confirmation, idx, output, prompts, calls, result>>
    /\ UNCHANGED ivars

\* line 150: Ok(())
ReturnOk ==
    /\ dpc = "end"
    /\ result' = "Ok"
    /\ dpc' = "done"
    /\ UNCHANGED <<cmd, canAsk, nodes, defaultNode, defaultAtResolve, all_nodes, delete_mode,
                   confirmation, idx, output, prompts, calls, stdout>>
    /\ UNCHANGED ivars

\* The configured default node is changed by another process before the
\* command has executed its deletion.
DefaultChanges ==
    /\ dpc \in {"list", "resolve", "match", "delete"}
    /\ \E n \in Names \ {defaultNode} : defaultNode' = n
    /\ UNCHANGED <<dpc, cmd, canAsk, nodes, defaultAtResolve, all_nodes, delete_mode,
                   confirmation, idx, output, prompts, calls, stdout, result>>
    /\ UNCHANGED ivars

DeleteNext ==
    \/ InvokeDelete
    \/ ListItemsNames
    \/ ResolveMode
    \/ ConfirmGated
    \/ SelectedNothing
    \/ ConfirmSelected
    \/ DeleteAll
    \/ DeleteSingle
    \/ DeleteDefault
    \/ DeleteSelectedItem
    \/ WriteSelectedOutput
    \/ ReturnOk
    \/ DefaultChanges

\* ------------------------------------------------------- tcp inlet create: rpc
\* Multi-segment routes, as the sequence of their protocol codes.
Project == "project"
Routes == { <<Project, "service", "secure", "service">>,  \* default_to_addr
            <<"node", "service">>,
            <<"node", Project, "service">>,
            <<"service">>,
            <<Project>> }

RECURSIVE ProcessNodesMultiaddr(_)
\* process_nodes_multiaddr: every /node/<name> segment is replaced by that
\* node's transport address; every other segment is kept.
ProcessNodesMultiaddr(addr) ==
    IF addr = <<>> THEN <<>>
    ELSE (IF Head(addr) = "node" THEN <<"ip4", "tcp">> ELSE <<Head(addr)>>)
         \o ProcessNodesMultiaddr(Tail(addr))

\* MultiAddr::matches(start, codes): the segments from `start` on begin with
\* `codes`.
Matches(addr, start, codes) ==
    /\ Len(addr) >= start + Len(codes)
    /\ \A i \in 1..Len(codes) : addr[start + i] = codes[i]

\* Reply<InletStatus> of one create_inlet request, or the error the `.await?`
\* of line 130 propagates (a transport failure, or the request timing out
\* under the node timeout of line 110).
NoStatus == "None"
Statuses == {"BadRequest", "NotFound"}
ReplySet ==
    {[kind |-> "Successful", status |-> NoStatus]}
    \cup {[kind |-> "Failed", status |-> st] : st \in Statuses \cup {NoStatus}}
    \cup {[kind |-> "Err", status |-> NoStatus]}

\* PortGuardPasses with the guard left out.
PortGuardSkipped(c) == TRUE

\* line 115: port_is_free_guard(&cmd.from)? lets the future go on.
PortGuardPasses(c) == c.portFree

\* ProjectAuthorizedConflict testing is_none() for is_some().
ProjectUnauthorizedConflict(c) ==
    Matches(c.to, 0, <<Project>>) /\ ~c.authorized

\* line 116: the route is a project route and --authorized was given.
ProjectAuthorizedConflict(c) ==
    Matches(c.to, 0, <<Project>>) /\ c.authorized

\* IsBadRequest comparing with another status.
IsNotFound(status) == status # NoStatus /\ status = "NotFound"

\* lines 138-139: if let Some(status) = s { if status == Status::BadRequest
IsBadRequest(status) == status # NoStatus /\ status = "BadRequest"

\* RetryDisabled with the zero test left out.
RetryNeverDisabled(c) == FALSE

\* line 149: if cmd.retry_wait.as_millis() == 0
RetryDisabled(c) == c.retry_wait = 0

InvokeInlet ==
    /\ dpc = "idle" /\ rpc_pc = "idle"
    /\ \E pf \in BOOLEAN, to \in Routes, au \in BOOLEAN,
          rw \in 0..MaxRetryWait, tm \in Timeouts :
         inlet' = [portFree |-> pf, to |-> to, authorized |-> au,
                   retry_wait |-> rw, timeout |-> tm]
    /\ rpc_pc' = "setup"
    /\ UNCHANGED <<ipc, is_finished, probes, inflight, replies, sleeps,
                   flagWrites, elapsed, reportErr, engine, reporter, rpcResult>>
    /\ UNCHANGED dvars

\* lines 96-113: normalise the route, find and connect the node, set the
\* timeout, create the flag; any `?` here ends rpc before the join.
Setup ==
    /\ rpc_pc = "setup"
    /\ \/ /\ inlet' = [inlet EXCEPT !.to = ProcessNodesMultiaddr(inlet.to)]
          /\ is_finished' = FALSE
          /\ rpc_pc' = "join"
          /\ ipc' = "guard"
          /\ reporter' = "poll"
          /\ UNCHANGED rpcResult
       \/ /\ rpcResult' = "ErrSetup"
          /\ rpc_pc' = "done"
          /\ UNCHANGED <<inlet, is_finished, ipc, reporter>>
    /\ UNCHANGED <<probes, inflight, replies, sleeps, flagWrites, elapsed,
                   reportErr, engine>>
    /\ UNCHANGED dvars

\* EngineFails as a join that returns the error and leaves the other future
\* running.
EngineFailsReporterRuns(e) ==
    /\ engine' = e
    /\ ipc' = "done"
    /\ rpcResult' = e
    /\ rpc_pc' = "done"
    /\ reporter' = reporter

\* The create_inlet future returns Err(e): try_join! (line 194) returns that
\* error at once, dropping the progress_output future, and `?` returns it
\* from rpc.
EngineFails(e) ==
    /\ engine' = e
    /\ ipc' = "done"
    /\ rpcResult' = e
    /\ rpc_pc' = "done"
    /\ reporter' = IF reporter = "done" THEN "done" ELSE "dropped"

\* line 115
PortGuard ==
    /\ rpc_pc = "join" /\ ipc = "guard"
    /\ IF PortGuardPasses(inlet)
       THEN /\ ipc' = "precheck"
            /\ UNCHANGED <<engine, rpcResult, rpc_pc, reporter>>
       ELSE EngineFails("ErrAddrInUse")
    /\ UNCHANGED <<inlet, is_finished, probes, inflight, replies, sleeps,
                   flagWrites, elapsed, reportErr>>
    /\ UNCHANGED dvars

\* lines 116-118
ProjectAuthorizedCheck ==
    /\ rpc_pc = "join" /\ ipc = "precheck"
    /\ IF ProjectAuthorizedConflict(inlet)
       THEN EngineFails("ErrAuthorized")
       ELSE /\ ipc' = "probe"
            /\ UNCHANGED <<engine, rpcResult, rpc_pc, reporter>>
    /\ UNCHANGED <<inlet, is_finished, probes, inflight, replies, sleeps,
                   flagWrites, elapsed, reportErr>>
    /\ UNCHANGED dvars

\* lines 121-129: node.create_inlet(...) is sent
SendProbe ==
    /\ rpc_pc = "join" /\ ipc = "probe"
    /\ probes < MaxProbes
    /\ probes' = probes + 1
    /\ inflight' = inflight + 1
    /\ ipc' = "await"
    /\ UNCHANGED <<inlet, is_finished, replies, sleeps, flagWrites, elapsed,
                   reportErr, engine, rpc_pc, reporter, rpcResult>>
    /\ UNCHANGED dvars

\* PropagatesError with the error of a request swallowed and retried.
TransportErrorRetried(r) == FALSE

\* line 130: `.await?` returns the error of the request from the future.
PropagatesError(r) == r.kind = "Err"

\* WritesFlag with the flag set whatever the reply.
WritesFlagAlways(r) == TRUE

\* WritesFlag with line 134 left out.
WritesFlagNever(r) == FALSE

\* lines 133-134: *is_finished.lock().await = true, in the Successful arm only.
\* The guard is a temporary of that one statement: the lock is taken, the
\* flag written and the lock released with no suspension point in between.
WritesFlag(r) == r.kind = "Successful"

\* SleepsBeforeRetry with the sleep left out.
RetriesAtOnce(c) == FALSE

\* line 161: tokio::time::sleep(cmd.retry_wait).await ends every retryable arm.
SleepsBeforeRetry(c) == TRUE

\* The reply makes the loop go round once more.
WillRetry(r) ==
    /\ ~PropagatesError(r)
    /\ r.kind # "Successful"
    /\ ~IsBadRequest(r.status)
    /\ ~RetryDisabled(inlet)

\* lines 130-162: the request completes after d and its result is classified.
\* The remote gives fewer than MaxProbes retried answers in a row.
ReceiveReply ==
    /\ rpc_pc = "join" /\ ipc = "await"
    /\ \E r \in ReplySet, d \in ProbeTimes :
         /\ inlet.timeout # NoTimeout => d <= inlet.timeout
         /\ WillRetry(r) => probes < MaxProbes
         /\ replies' = Append(replies, r)
         /\ inflight' = inflight - 1
         /\ elapsed' = elapsed + d
         /\ is_finished' = IF WritesFlag(r) THEN TRUE ELSE is_finished
         /\ flagWrites' = flagWrites + (IF WritesFlag(r) THEN 1 ELSE 0)
         /\ IF PropagatesError(r)
            THEN /\ EngineFails("ErrTransport")
                 /\ UNCHANGED sleeps
            ELSE IF r.kind = "Successful"
            THEN /\ engine' = "Ok"
                 /\ ipc' = "done"
                 /\ UNCHANGED <<sleeps, rpc_pc, reporter, rpcResult>>
            ELSE IF IsBadRequest(r.status)
            THEN /\ EngineFails("ErrBadRequest")
                 /\ UNCHANGED sleeps
            ELSE IF RetryDisabled(inlet)
            THEN /\ EngineFails("ErrFailed")
                 /\ UNCHANGED sleeps
            ELSE /\ IF SleepsBeforeRetry(inlet)
                    THEN sleeps' = sleeps + 1 /\ ipc' = "sleep"
                    ELSE sleeps' = sleeps /\ ipc' = "probe"
                 /\ UNCHANGED <<engine, rpc_pc, reporter, rpcResult>>
    /\ UNCHANGED <<inlet, probes, reportErr>>
    /\ UNCHANGED dvars

\* line 161: tokio::time::sleep(cmd.retry_wait) is over; the loop goes round
WakeUp ==
    /\ rpc_pc = "join" /\ ipc = "sleep"
    /\ ipc' = "probe"
    /\ elapsed' = elapsed + inlet.retry_wait
    /\ UNCHANGED <<inlet, is_finished, probes, inflight, replies, sleeps,
                   flagWrites, reportErr, engine, rpc_pc, reporter, rpcResult>>
    /\ UNCHANGED dvars

\* ReporterResult with a reporting error returned to the caller.
ReporterPropagates(err) == IF err THEN "Err" ELSE "Ok"

\* What progress_output hands to try_join! when showing a message met the
\* error `err`: reporting errors are suppressed, never returned.
ReporterResult(err) == "Ok"

\* progress_output_with_progress_bar: read the flag; stop when it is true,
\* else show the next message and wait for the next poll.  An Err from this
\* future would be returned by try_join! (line 194) as rpc's result.
ReporterPoll ==
    /\ rpc_pc = "join" /\ reporter = "poll"
    /\ IF is_finished
       THEN /\ reporter' = "done"
            /\ UNCHANGED <<reportErr, ipc, engine, rpc_pc, rpcResult>>
       ELSE \E err \in BOOLEAN :
            /\ reportErr' = (reportErr \/ err)
            /\ IF ReporterResult(err) = "Err"
               THEN /\ reporter' = "failed"
                    /\ rpcResult' = "ErrReporter"
                    /\ rpc_pc' = "done"
                    /\ ipc' = "done"
                    /\ engine' = "dropped"
               ELSE /\ reporter' = "wait"
                    /\ UNCHANGED <<ipc, engine, rpc_pc, rpcResult>>
    /\ UNCHANGED <<inlet, is_finished, probes, inflight, replies, sleeps,
                   flagWrites, elapsed>>
    /\ UNCHANGED dvars

ReporterWake ==
    /\ rpc_pc = "join" /\ reporter = "wait"
    /\ reporter' = "poll"
    /\ UNCHANGED <<ipc, inlet, is_finished, probes, inflight, replies, sleeps,
                   flagWrites, elapsed, reportErr, engine, rpc_pc, rpcResult>>
    /\ UNCHANGED dvars

\* lines 194-217: both futures are Ok: the inlet is presented, rpc returns Ok
JoinAndPresent ==
    /\ rpc_pc = "join"
    /\ engine = "Ok" /\ reporter = "done"
    /\ stdout' = Append(stdout, [kind |-> "inlet_created", name |-> NoName, entries |-> <<>>])
    /\ rpcResult' = "Ok"
    /\ rpc_pc' = "done"
    /\ UNCHANGED <<ipc, inlet, is_finished, probes, inflight, replies, sleeps,
                   flagWrites, elapsed, reportErr, engine, reporter>>
    /\ UNCHANGED <<dpc, cmd, canAsk, nodes, defaultNode, defaultAtResolve, all_nodes, delete_mode,
                   confirmation, idx, output, prompts, calls, result>>

\* The steps of the two futures try_join! polls.
EngineStep == PortGuard \/ ProjectAuthorizedCheck \/ SendProbe \/ ReceiveReply \/ WakeUp
ReporterStep == ReporterPoll \/ ReporterWake

InletNext ==
    \/ InvokeInlet
    \/ Setup
    \/ PortGuard
    \/ ProjectAuthorizedCheck
    \/ SendProbe
    \/ ReceiveReply
    \/ WakeUp
    \/ ReporterPoll
    \/ ReporterWake
    \/ JoinAndPresent

Init ==
    /\ dpc = "idle"
    /\ cmd = [node_name |-> NoName, all |-> FALSE, force |-> FALSE, yes |-> FALSE]
    /\ canAsk = FALSE
    /\ nodes = {}
    /\ defaultNode = 1
    /\ defaultAtResolve = NoName
    /\ all_nodes = <<>>
    /\ delete_mode = NoMode
    /\ confirmation = "none"
    /\ idx = 1
    /\ output = <<>>
    /\ prompts = <<>>
    /\ calls = <<>>
    /\ stdout = <<>>
    /\ result = "none"
    /\ ipc = "idle"
    /\ inlet = [portFree |-> TRUE, to |-> <<>>, authorized |-> FALSE,
                retry_wait |-> 0, timeout |-> NoTimeout]
    /\ is_finished = FALSE
    /\ probes = 0
    /\ inflight = 0
    /\ replies = <<>>
    /\ sleeps = 0
    /\ flagWrites = 0
    /\ elapsed = 0
    /\ reportErr = FALSE
    /\ engine = "none"
    /\ rpc_pc = "idle"
    /\ reporter = "idle"
    /\ rpcResult = "none"

Next == DeleteNext \/ InletNext

Spec == Init /\ [][Next]_vars

\* The runtime polls a future that can make progress: a request is answered
\* or fails, a timer fires, and the join completes once both futures have.
FairSpec ==
    /\ Spec
    /\ WF_vars(EngineStep)
    /\ WF_vars(ReporterStep)
    /\ WF_vars(JoinAndPresent)

\* ------------------------------------------------------------------ claims
\* The mode has been resolved (lines 54-69 completed).
ModeResolved == delete_mode.tag # "none"
ConfirmPrompts == {"confirm_All", "confirm_Single", "confirm_Selected", "confirm_Default"}
DeletionOps == {"delete_all_nodes", "delete_node", "delete_sigkill"}

\* C1: mode resolution picks the first matching rule in the order
\* all -> All; name -> Single(name); known names and interactive ->
\* Selected(the user's picks); otherwise -> Default.  With no known names or
\* no interactive session (and no name, no --all) it yields Default and the
\* resolver never fails.
C1_ModeResolution ==
    /\ ModeResolved =>
         /\ cmd.all => delete_mode.tag = "All"
         /\ (~cmd.all /\ cmd.node_name # NoName) =>
               delete_mode.tag = "Single" /\ delete_mode.name = cmd.node_name
         /\ (~cmd.all /\ cmd.node_name = NoName /\ all_nodes # <<>> /\ canAsk) =>
               /\ delete_mode.tag = "Selected"
               /\ Range(delete_mode.picks) \subseteq Range(all_nodes)
         /\ (~cmd.all /\ cmd.node_name = NoName /\ (all_nodes = <<>> \/ ~canAsk)) =>
               delete_mode.tag = "Default"
    /\ (cmd.all \/ cmd.node_name # NoName \/ all_nodes = <<>> \/ ~canAsk) =>
         /\ result # "Panic"
         /\ "select" \notin Range(prompts)
         /\ dpc \in {"match", "delete", "end"} => ModeResolved

C1_Witness ==
    /\ ModeResolved /\ delete_mode.tag = "Default"
    /\ ~cmd.all /\ cmd.node_name = NoName /\ all_nodes = <<>> /\ canAsk
    /\ dpc = "match"

\* C2: in every mode, with yes = true no confirmation prompt is shown.
C2_YesNeverPrompts ==
    cmd.yes => Range(prompts) \cap ConfirmPrompts = {}

\* C3: a declined confirmation is a no-op: no deletion call, the persisted
\* nodes are those listed at the start, and the command returns Ok.
C3_DeclinedIsNoOp ==
    confirmation = "false" =>
        /\ calls = <<>>
        /\ nodes = Range(all_nodes)
        /\ dpc \in {"end", "done"}
        /\ dpc = "done" => result = "Ok"

C3_Witness ==
    /\ confirmation = "false" /\ dpc = "done" /\ result = "Ok"
    /\ delete_mode.tag = "All" /\ prompts = <<"confirm_All">>
    /\ nodes # {}

\* C4: every deletion call follows a confirmation that resolved to true; a
\* confirmation that failed, or that could not be asked, gives no deletion.
C4_NoDeletionUnconfirmed ==
    /\ (calls # <<>> \/ dpc = "delete") => confirmation = "true"
    /\ confirmation \in {"err", "false", "none"} => calls = <<>>
    /\ (~canAsk /\ ~cmd.yes) => calls = <<>>
    /\ confirmation = "err" => dpc \in {"end", "done"} /\ nodes = Range(all_nodes)

C4_Witness ==
    /\ confirmation = "err" /\ dpc = "done"
    /\ delete_mode.tag = "Selected" /\ Len(delete_mode.picks) > 0
    /\ calls = <<>> /\ nodes # {}

\* C5: an empty selection short-circuits: the "nothing selected" message and
\* Ok, with no deletion call and no confirmation prompt.
C5_EmptySelection ==
    (delete_mode.tag = "Selected" /\ delete_mode.picks = <<>>) =>
        /\ calls = <<>>
        /\ prompts = <<"select">>
        /\ confirmation = "none"
        /\ dpc \in {"match", "done"}
        /\ dpc = "done" =>
              /\ result = "Ok"
              /\ Len(stdout) = 1 /\ stdout[1].kind = "nothing_selected"

C5_Witness ==
    /\ delete_mode.tag = "Selected" /\ delete_mode.picks = <<>>
    /\ dpc = "done" /\ result = "Ok" /\ nodes # {}

\* C6: a confirmed selection of N names: one delete_sigkill per name, in
\* selection order, whatever fails; the report has the N names in that
\* order, each marked with the result of its own deletion.
C6_EveryItemAttempted ==
    (delete_mode.tag = "Selected" /\ confirmation = "true") =>
        LET picks == delete_mode.picks IN
        /\ Len(calls) = Len(output)
        /\ Len(calls) <= Len(picks)
        /\ \A i \in 1..Len(calls) :
              /\ calls[i].op = "delete_sigkill"
              /\ calls[i].name = picks[i]
              /\ output[i].name = picks[i]
              /\ output[i].ok = calls[i].ok
        /\ \A i, j \in 1..Len(calls) : calls[i].name = calls[j].name => i = j
        /\ dpc = "delete" => (idx = Len(calls) + 1 /\ stdout = <<>>)
        /\ dpc \in {"end", "done"} =>
              /\ Len(calls) = Len(picks)
              /\ Len(stdout) = 1
              /\ stdout[1].kind = "report"
              /\ stdout[1].entries = output

C6_Witness ==
    /\ delete_mode.tag = "Selected" /\ confirmation = "true"
    /\ dpc = "done" /\ result = "Ok"
    /\ Len(delete_mode.picks) >= 3
    /\ ~output[1].ok /\ output[2].ok /\ ~output[3].ok

\* The create_inlet future has been started by the join.
EngineStarted == ipc # "idle"
Retryable(r) == r.kind = "Failed" /\ r.status # "BadRequest"
Fatal == {"ErrAddrInUse", "ErrAuthorized", "ErrTransport", "ErrBadRequest", "ErrFailed"}

\* C7: with retry_wait = 0 and no Successful reply, the command ends in an
\* error after exactly one probe, without sleeping.
C7_ZeroRetryWaitOneProbe ==
    (EngineStarted /\ inlet.retry_wait = 0) =>
        /\ probes <= 1
        /\ sleeps = 0
        /\ ipc # "sleep"
        /\ (Len(replies) = 1 /\ replies[1].kind # "Successful") =>
              /\ probes = 1
              /\ ipc = "done" /\ rpc_pc = "done"
              /\ engine \in Fatal /\ rpcResult = engine
              /\ ~is_finished

C7_Witness ==
    /\ inlet.retry_wait = 0 /\ rpc_pc = "done"
    /\ probes = 1 /\ Len(replies) = 1 /\ Retryable(replies[1])
    /\ rpcResult = "ErrFailed"

\* C8: with the bind address occupied, the command fails with no probe sent.
C8_OccupiedNoProbe ==
    (EngineStarted /\ ~inlet.portFree) =>
        /\ probes = 0 /\ inflight = 0 /\ replies = <<>> /\ sleeps = 0
        /\ ipc \in {"guard", "done"}
        /\ ipc = "done" =>
              engine = "ErrAddrInUse" /\ rpcResult = "ErrAddrInUse" /\ rpc_pc = "done"

C8_Witness ==
    /\ ~inlet.portFree /\ rpc_pc = "done" /\ rpcResult = "ErrAddrInUse"
    /\ inlet.retry_wait > 0

\* C9: a normalized route that starts with a project segment, together with
\* an authorized identity, fails the command with no probe and no retry,
\* whatever retry_wait is.
C9_ProjectAuthorizedNoProbe ==
    (EngineStarted /\ inlet.to # <<>> /\ Head(inlet.to) = Project /\ inlet.authorized) =>
        /\ probes = 0 /\ inflight = 0 /\ replies = <<>> /\ sleeps = 0
        /\ ipc \in {"guard", "precheck", "done"}
        /\ ipc = "done" =>
              /\ engine \in {"ErrAddrInUse", "ErrAuthorized"}
              /\ inlet.portFree => engine = "ErrAuthorized"
              /\ rpcResult = engine /\ rpc_pc = "done"

C9_Witness ==
    /\ inlet.to # <<>> /\ Head(inlet.to) = Project
    /\ inlet.authorized /\ inlet.portFree
    /\ inlet.retry_wait > 0
    /\ rpc_pc = "done" /\ rpcResult = "ErrAuthorized"

\* C10: a Failed reply with the BadRequest status is the last thing the
\* engine does: no sleep and no probe follows, also when retry_wait > 0, and
\* the command's result is that error.
C10_BadRequestIsFatal ==
    \A k \in 1..Len(replies) :
        (replies[k].kind = "Failed" /\ replies[k].status = "BadRequest") =>
            /\ k = Len(replies)
            /\ probes = k /\ inflight = 0
            /\ sleeps = k - 1
            /\ ipc = "done" /\ rpc_pc = "done"
            /\ engine = "ErrBadRequest" /\ rpcResult = "ErrBadRequest"
            /\ ~is_finished

C10_Witness ==
    /\ inlet.retry_wait > 0
    /\ Len(replies) = 2 /\ Retryable(replies[1])
    /\ replies[2].kind = "Failed" /\ replies[2].status = "BadRequest"
    /\ rpcResult = "ErrBadRequest"

\* C11: when rpc has returned, whatever the outcome, the progress reporter
\* is not running; when the engine ends in an error the flag is still false
\* and the reporter is stopped all the same.
C11_ReporterStoppedOnReturn ==
    /\ rpc_pc = "done" => reporter \in {"idle", "done", "dropped"}
    /\ (rpc_pc = "done" /\ reporter = "idle") => rpcResult = "ErrSetup"
    /\ engine \in Fatal =>
          /\ rpc_pc = "done"
          /\ ~is_finished
          /\ reporter = "dropped"

C11_Witness ==
    /\ rpc_pc = "done" /\ engine = "ErrTransport" /\ ~is_finished
    /\ reporter = "dropped" /\ Len(replies) >= 2

\* C12: a reporting error is never rpc's result: once the two futures were
\* started, rpc returns the outcome of the retry engine.
C12_ReporterNeverFails ==
    /\ rpcResult # "ErrReporter"
    /\ reporter # "failed"
    /\ (rpc_pc = "done" /\ EngineStarted) => rpcResult = engine

C12_Witness ==
    /\ reportErr /\ rpc_pc = "done" /\ rpcResult = "Ok" /\ engine = "Ok"

\* C13: with --timeout given, once the time spent in probes and sleeps
\* exceeds it the retry loop has ended with an error.
C13_OverallTimeoutEndsLoop ==
    (EngineStarted /\ inlet.timeout # NoTimeout /\ elapsed > inlet.timeout) =>
        ipc = "done" /\ engine \in Fatal

\* C14: --all with force = false: one bulk delete_all_nodes call carrying
\* force = false; after a successful command no record is left.
C14_AllGraceful ==
    (delete_mode.tag = "All" /\ ~cmd.force) =>
        /\ Len(calls) <= 1
        /\ \A i \in 1..Len(calls) :
              calls[i].op = "delete_all_nodes" /\ ~calls[i].force
        /\ (dpc = "done" /\ result = "Ok" /\ confirmation = "true") =>
              /\ Len(calls) = 1 /\ calls[1].ok
              /\ nodes = {}
              /\ Len(stdout) = 1 /\ stdout[1].kind = "all_deleted"

C14_Witness ==
    /\ delete_mode.tag = "All" /\ ~cmd.force
    /\ dpc = "done" /\ result = "Ok" /\ confirmation = "true"
    /\ Len(all_nodes) >= 2 /\ nodes = {}

\* C15: a confirmed selection ends in Ok however many deletions fail; the
\* failures are entries of the report only.
C15_SelectedAlwaysOk ==
    (delete_mode.tag = "Selected" /\ confirmation = "true") =>
        /\ result \in {"none", "Ok"}
        /\ dpc = "done" =>
              /\ result = "Ok"
              /\ Len(stdout) = 1
              /\ \A i \in 1..Len(calls) : stdout[1].entries[i].ok = calls[i].ok

C15_Witness ==
    /\ delete_mode.tag = "Selected" /\ confirmation = "true"
    /\ dpc = "done" /\ result = "Ok"
    /\ Len(calls) >= 2 /\ \A i \in 1..Len(calls) : ~calls[i].ok

\* C16: the completion flag starts false, goes from false to true at most
\* once and never back, is written only as the engine takes a Successful
\* reply, and is false whenever the engine has ended in an error.
C16_FlagState ==
    /\ flagWrites <= 1
    /\ is_finished <=> flagWrites = 1
    /\ ~EngineStarted => ~is_finished
    /\ is_finished =>
          /\ engine = "Ok"
          /\ replies # <<>> /\ replies[Len(replies)].kind = "Successful"
    /\ engine \in Fatal => ~is_finished

C16_CompletionFlag ==
    /\ []C16_FlagState
    /\ [][/\ is_finished => is_finished'
          /\ is_finished' # is_finished =>
                /\ ipc = "await" /\ engine' = "Ok"
                /\ reporter' = reporter]_vars

C16_Witness ==
    /\ is_finished /\ flagWrites = 1 /\ Len(replies) >= 2 /\ rpc_pc = "done"

\* C17: at most one create_inlet request is in flight; a further probe is
\* sent only after the reply before it was classified retryable and the
\* sleep that followed is over; the reporter sends none.
C17_OneInFlight ==
    /\ inflight \in {0, 1}
    /\ inflight = 1 <=> ipc = "await"
    /\ probes = Len(replies) + inflight
    /\ \A k \in 1..(probes - 1) : Retryable(replies[k])
    /\ ipc = "await" => sleeps = probes - 1
    /\ ipc \in {"probe", "sleep"} => sleeps = probes

C17_SequentialProbes ==
    /\ []C17_OneInFlight
    /\ [][/\ probes' # probes =>
                /\ probes' = probes + 1
                /\ ipc = "probe" /\ ipc' = "await" /\ inflight = 0
                /\ reporter' = reporter
          /\ (ipc' = "probe" /\ ipc # "probe" /\ probes > 0) => ipc = "sleep"
          /\ reporter' # reporter => probes' = probes /\ inflight' <= inflight]_vars

C17_Witness ==
    /\ probes = 3 /\ ipc = "await" /\ sleeps = 2 /\ inflight = 1
    /\ reporter = "wait"

\* C18: in Default mode the node deleted and reported is the default node
\* configured when the deletion is executed, after the confirmation, also
\* when the default changed since the mode was resolved.
C18_DefaultAtExecution ==
    (delete_mode.tag = "Default" /\ calls # <<>>) =>
        /\ confirmation = "true"
        /\ Len(calls) = 1
        /\ calls[1].op = "delete_node"
        /\ calls[1].name = defaultNode
        /\ calls[1].ok =>
              /\ Len(stdout) = 1
              /\ stdout[1].kind = "node_deleted" /\ stdout[1].name = defaultNode

C18_Witness ==
    /\ delete_mode.tag = "Default" /\ calls # <<>> /\ calls[1].ok
    /\ defaultAtResolve # defaultNode
    /\ calls[1].name = defaultNode
    /\ Len(all_nodes) >= 2 /\ all_nodes[1] # defaultNode

\* C19: a request that ends in an error ends the loop with that error: no
\* sleep and no probe follows, also when retry_wait > 0, and the flag stays
\* false.
C19_TransportErrorIsFinal ==
    \A k \in 1..Len(replies) :
        replies[k].kind = "Err" =>
            /\ k = Len(replies)
            /\ probes = k /\ inflight = 0
            /\ sleeps = k - 1
            /\ ipc = "done" /\ rpc_pc = "done"
            /\ engine = "ErrTransport" /\ rpcResult = "ErrTransport"
            /\ ~is_finished /\ flagWrites = 0

C19_Witness ==
    /\ inlet.retry_wait > 0
    /\ Len(replies) = 2 /\ Retryable(replies[1]) /\ replies[2].kind = "Err"
    /\ rpcResult = "ErrTransport"

\* C20: under fair scheduling of the two futures the join always completes;
\* once the remote has answered Successful the flag is true, the reporter
\* sees it and stops, and rpc returns Ok; Ok is returned only after both
\* futures have completed.
C20_OkAfterBoth ==
    /\ rpcResult = "Ok" =>
          /\ engine = "Ok" /\ ipc = "done"
          /\ reporter = "done" /\ is_finished
    /\ (\E i \in 1..Len(stdout) : stdout[i].kind = "inlet_created") => rpcResult = "Ok"
    /\ (replies # <<>> /\ replies[Len(replies)].kind = "Successful") => is_finished

C20_JoinedTasksLive ==
    /\ []C20_OkAfterBoth
    /\ (rpc_pc = "join") ~> (rpc_pc = "done")
    /\ (engine = "Ok") ~> (reporter = "done")
    /\ (engine = "Ok") ~> (rpcResult = "Ok")

C20_Witness ==
    /\ rpcResult = "Ok" /\ inlet.portFree /\ inlet.retry_wait > 0
    /\ Len(replies) = 3 /\ Retryable(replies[1]) /\ Retryable(replies[2])
====
